---------------------------- MODULE Spec2Model ----------------------------
(***************************************************************************)
(* IncomingStreamTrackMirrored (lib/IncomingStreamTrackMirrored.js).       *)
(*                                                                         *)
(* One original IncomingStreamTrack (the SourceTrack) and the mirrors      *)
(* built from it.  Every method of the class is synchronous JavaScript,    *)
(* so a call runs to completion before any other call starts; the one      *)
(* place where other calls can run inside a call is the emitter.emit() of  *)
(* stop(), which invokes the listeners of the `stopped` event before the   *)
(* rest of stop() runs.  attached() and detached() emit as their last      *)
(* statement, so calls made by their listeners are calls made after them.  *)
(***************************************************************************)
EXTENDS Integers, Sequences, FiniteSets

\* ------------------------------------------------------------------ bounds
\* attached() + detached() calls forwarded to the SourceTrack, per mirror
MaxCalls == 4
\* stop() calls per mirror
MaxStopCalls == 3
\* SendPLI requests per SSRC
MaxPLI == 2
\* packets emitted per PacketSource
MaxPackets == 3
\* attached() + detached() calls per mirror when two mirrors are followed
MaxSiblingCalls == 3

\* --------------------------------------------------------------- universe
Mirrors == {"M1", "M2"}
EncodingIds == {"0", "1"}

\* encoding.source.media.ssrc of the SourceTrack's encodings
ssrc(id) == IF id = "0" THEN 1000 ELSE 2000
SSRCs == {ssrc(id) : id \in EncodingIds}

\* values of this.track / this.receiver
Unborn == "unborn"
Set    == "set"
Null   == "null"

VARIABLES
    \* the SourceTrack and its collaborators
    trackEncodings,     \* incomingStreamTrack.encodings: ids in Map order
    listeners,          \* per PacketSource: the mirrors whose buffer listens
    trackAttached,      \* track.attached() calls received, per calling mirror
    trackDetached,      \* track.detached() calls received, per calling mirror
    pli,                \* receiver.SendPLI(ssrc) calls received, per ssrc
    \* the mirrors
    track,              \* this.track
    receiver,           \* this.receiver
    counter,            \* this.counter
    encodings,          \* this.encodings: id -> [id, ssrc]
    emitter,            \* events emitted by this.emitter, counted by name
    removeCalls,        \* RemoveListener(buffer) calls, per mirror and id
    sourceStops,        \* encoding.source.Stop() calls, per mirror and id
    depacketizerStops,  \* encoding.depacketizer.Stop() calls
    \* packets
    emitted,            \* packets each PacketSource has emitted
    received,           \* packets handed to each mirror's multiplexer
    frames,             \* packets each mirror's depacketizer has assembled
    \* control
    stack,              \* mirrors whose stop() is inside emit("stopped")
    stopCalls,          \* stop() calls made, per mirror
    stopSerial,         \* every stop() so far returned before the next began
    lastCall            \* the call of the last step and how it ended

vars == <<trackEncodings, listeners, trackAttached, trackDetached, pli,
          track, receiver, counter, encodings, emitter, removeCalls,
          sourceStops, depacketizerStops, emitted, received, frames,
          stack, stopCalls, stopSerial, lastCall>>

sourceVars == <<trackEncodings, listeners, trackAttached, trackDetached, pli>>
mirrorVars == <<track, receiver, counter, encodings, emitter, removeCalls,
                sourceStops, depacketizerStops>>
packetVars == <<emitted, received, frames>>
stopVars   == <<stack, stopCalls, stopSerial>>

\* ---------------------------------------------------------------- helpers
Range(s) == {s[i] : i \in 1..Len(s)}

Call(op, m, result) == [op |-> op, mirror |-> m, result |-> result]

NoEncodings == [id \in {} |-> [id |-> id, ssrc |-> 0]]

NoEvents == [attached |-> 0, detached |-> 0, stopped |-> 0]

\* ------------------------------------------------------------------- Init
Init ==
    /\ trackEncodings \in {<<>>, <<"0">>, <<"0", "1">>}
    /\ listeners = [id \in EncodingIds |-> {}]
    /\ trackAttached = [m \in Mirrors |-> 0]
    /\ trackDetached = [m \in Mirrors |-> 0]
    /\ pli = [s \in SSRCs |-> 0]
    /\ track = [m \in Mirrors |-> Unborn]
    /\ receiver = [m \in Mirrors |-> Unborn]
    /\ counter = [m \in Mirrors |-> 0]
    /\ encodings = [m \in Mirrors |-> NoEncodings]
    /\ emitter = [m \in Mirrors |-> NoEvents]
    /\ removeCalls = [m \in Mirrors |-> [id \in EncodingIds |-> 0]]
    /\ sourceStops = [m \in Mirrors |-> [id \in EncodingIds |-> 0]]
    /\ depacketizerStops = [m \in Mirrors |-> [id \in EncodingIds |-> 0]]
    /\ emitted = [id \in EncodingIds |-> <<>>]
    /\ received = [m \in Mirrors |-> [id \in EncodingIds |-> <<>>]]
    /\ frames = [m \in Mirrors |-> [id \in EncodingIds |-> <<>>]]
    /\ stack = <<>>
    /\ stopCalls = [m \in Mirrors |-> 0]
    /\ stopSerial = [m \in Mirrors |-> TRUE]
    /\ lastCall = Call("none", "none", "ok")

\* ------------------------------------------------------------ constructor
\* A loop that skips the first encoding of the original track
allButFirstEncoding ==
    {trackEncodings[i] : i \in 2..Len(trackEncodings)}

\* The encodings the constructor's loop visits
sourceEncodings ==
    Range(trackEncodings)

\* A PacketSource that keeps one listener only
setListener(id, m) ==
    {m}

\* encoding.source.AddListener(source)
addListener(id, m) ==
    listeners[id] \cup {m}

\* new IncomingStreamTrackMirrored(incomingStreamTrack, timeService)
constructor(m) ==
    /\ track[m] = Unborn
    /\ track' = [track EXCEPT ![m] = Set]
    /\ receiver' = [receiver EXCEPT ![m] = Set]
    /\ counter' = [counter EXCEPT ![m] = 0]
    /\ listeners' = [id \in EncodingIds |->
                        IF id \in sourceEncodings
                        THEN addListener(id, m)
                        ELSE listeners[id]]
    /\ encodings' = [encodings EXCEPT ![m] =
                        [id \in sourceEncodings |->
                            [id |-> id, ssrc |-> ssrc(id)]]]
    /\ lastCall' = Call("constructor", m, "ok")
    /\ UNCHANGED <<trackEncodings, trackAttached, trackDetached, pli,
                   emitter, removeCalls, sourceStops, depacketizerStops>>
    /\ UNCHANGED <<packetVars, stopVars>>

\* --------------------------------------------------------------- attached
\* A test that takes every attach for the first
firstAttachAlways(c) ==
    c >= 1

\* If it is the first
firstAttach(c) ==
    c = 1

\* A forward that was left out
notForwarded(n) ==
    n

\* this.track.attached(): one more notification at the original track
forwarded(n) ==
    n + 1

attached(m) ==
    /\ track[m] # Unborn
    /\ IF track[m] = Null
       THEN \* this.track.attached() on null
            /\ lastCall' = Call("attached", m, "TypeError")
            /\ UNCHANGED <<sourceVars, mirrorVars>>
       ELSE /\ trackAttached[m] + trackDetached[m] < MaxCalls
            /\ trackAttached' = [trackAttached EXCEPT ![m] = forwarded(@)]
            /\ counter' = [counter EXCEPT ![m] = @ + 1]
            /\ emitter' = [emitter EXCEPT ![m].attached =
                              IF firstAttach(counter'[m]) THEN @ + 1 ELSE @]
            /\ lastCall' = Call("attached", m, "ok")
            /\ UNCHANGED <<trackEncodings, listeners, trackDetached, pli,
                           track, receiver, encodings, removeCalls,
                           sourceStops, depacketizerStops>>
    /\ UNCHANGED <<packetVars, stopVars>>

\* --------------------------------------------------------------- detached
\* A test that takes the detach that leaves one consumer for the last
lastDetachEarly(c) ==
    c <= 1

\* If it is the last
lastDetach(c) ==
    c = 0

detached(m) ==
    /\ track[m] # Unborn
    /\ IF track[m] = Null
       THEN \* this.track.detached() on null
            /\ lastCall' = Call("detached", m, "TypeError")
            /\ UNCHANGED <<sourceVars, mirrorVars>>
       ELSE /\ trackAttached[m] + trackDetached[m] < MaxCalls
            /\ trackDetached' = [trackDetached EXCEPT ![m] = @ + 1]
            /\ counter' = [counter EXCEPT ![m] = @ - 1]
            /\ emitter' = [emitter EXCEPT ![m].detached =
                              IF lastDetach(counter'[m]) THEN @ + 1 ELSE @]
            /\ lastCall' = Call("detached", m, "ok")
            /\ UNCHANGED <<trackEncodings, listeners, trackAttached, pli,
                           track, receiver, encodings, removeCalls,
                           sourceStops, depacketizerStops>>
    /\ UNCHANGED <<packetVars, stopVars>>

\* ---------------------------------------------------------------- refresh
\* A loop over the original track's encodings instead of the mirror's own
requestsOfTrack(m, s) ==
    Cardinality({id \in Range(trackEncodings) : ssrc(id) = s})

\* SendPLI requests one refresh() call makes for ssrc s
requests(m, s) ==
    Cardinality({id \in DOMAIN encodings[m] : encodings[m][id].ssrc = s})

refresh(m) ==
    /\ track[m] # Unborn
    /\ IF encodings[m] # NoEncodings /\ receiver[m] = Null
       THEN \* this.receiver.SendPLI on null
            /\ lastCall' = Call("refresh", m, "TypeError")
            /\ UNCHANGED pli
       ELSE /\ \A s \in SSRCs : pli[s] + requests(m, s) <= MaxPLI
            /\ pli' = [s \in SSRCs |-> pli[s] + requests(m, s)]
            /\ lastCall' = Call("refresh", m, "ok")
    /\ UNCHANGED <<trackEncodings, listeners, trackAttached, trackDetached>>
    /\ UNCHANGED <<mirrorVars, packetVars, stopVars>>

\* ------------------------------------------------------------------- stop
\* Position in track.encodings of the first encoding the mirror has no
\* entry for (this.encodings.get(id) is undefined there); 0 if none.
firstUnknown(m) ==
    LET unknown == {i \in 1..Len(trackEncodings) :
                       trackEncodings[i] \notin DOMAIN encodings[m]}
    IN  IF unknown = {} THEN 0
        ELSE CHOOSE i \in unknown : \A j \in unknown : i <= j

\* Encodings the first loop of stop() calls RemoveListener for
removedBy(m) ==
    IF firstUnknown(m) = 0 THEN Range(trackEncodings)
    ELSE {trackEncodings[i] : i \in 1..(firstUnknown(m) - 1)}

\* A removal that empties the PacketSource's listeners
removeEveryListener(id, m) ==
    {}

\* trackEncoding.source.RemoveListener(source)
removeListener(id, m) ==
    listeners[id] \ {m}

\* A guard that never holds
neverStopped(m) ==
    FALSE

\* Don't call it twice: if (!this.track) return
alreadyStopped(m) ==
    track[m] = Null

\* stop(), from its first statement to emitter.emit("stopped")
stop(m) ==
    /\ track[m] # Unborn
    /\ stopCalls[m] < MaxStopCalls
    /\ stopCalls' = [stopCalls EXCEPT ![m] = @ + 1]
    /\ IF alreadyStopped(m)
       THEN \* Don't call it twice
            /\ lastCall' = Call("stop", m, "ok")
            /\ UNCHANGED <<listeners, removeCalls, sourceStops,
                           depacketizerStops, emitter, stack, stopSerial>>
       ELSE /\ listeners' = [id \in EncodingIds |->
                                IF id \in removedBy(m)
                                THEN removeListener(id, m)
                                ELSE listeners[id]]
            /\ removeCalls' = [removeCalls EXCEPT ![m] =
                                  [id \in EncodingIds |->
                                      IF id \in removedBy(m)
                                      THEN @[id] + 1 ELSE @[id]]]
            /\ IF firstUnknown(m) # 0
               THEN \* this.encodings.get(trackEncoding.id).source
                    /\ lastCall' = Call("stop", m, "TypeError")
                    /\ stopSerial' = [stopSerial EXCEPT ![m] = FALSE]
                    /\ UNCHANGED <<sourceStops, depacketizerStops,
                                   emitter, stack>>
               ELSE /\ sourceStops' = [sourceStops EXCEPT ![m] =
                                          [id \in EncodingIds |->
                                              IF id \in DOMAIN encodings[m]
                                              THEN @[id] + 1 ELSE @[id]]]
                    /\ depacketizerStops' = [depacketizerStops EXCEPT ![m] =
                                          [id \in EncodingIds |->
                                              IF id \in DOMAIN encodings[m]
                                              THEN @[id] + 1 ELSE @[id]]]
                    /\ emitter' = [emitter EXCEPT ![m].stopped = @ + 1]
                    /\ stack' = Append(stack, m)
                    /\ stopSerial' = [stopSerial EXCEPT ![m] =
                                         @ /\ m \notin Range(stack)]
                    /\ lastCall' = Call("stop", m, "emit")
    /\ UNCHANGED <<trackEncodings, trackAttached, trackDetached, pli,
                   track, receiver, counter, encodings>>
    /\ UNCHANGED packetVars

\* A clear() that was left out
notCleared(m) ==
    encodings[m]

\* this.encodings.clear()
cleared(m) ==
    NoEncodings

\* stop(), from the return of emitter.emit("stopped") to its end
stopReturn(m) ==
    /\ stack # <<>>
    /\ stack[Len(stack)] = m
    /\ stack' = SubSeq(stack, 1, Len(stack) - 1)
    /\ encodings' = [encodings EXCEPT ![m] = cleared(m)]
    /\ track' = [track EXCEPT ![m] = Null]
    /\ receiver' = [receiver EXCEPT ![m] = Null]
    /\ lastCall' = Call("stop", m, "ok")
    /\ UNCHANGED <<sourceVars, counter, emitter, removeCalls, sourceStops,
                   depacketizerStops, packetVars, stopCalls, stopSerial>>

\* ------------------------------------------------------------ SourceTrack
\* The owner of the SourceTrack adds an encoding to track.encodings
addEncoding(id) ==
    /\ id \notin Range(trackEncodings)
    /\ trackEncodings' = Append(trackEncodings, id)
    /\ lastCall' = Call("addEncoding", "none", "ok")
    /\ UNCHANGED <<listeners, trackAttached, trackDetached, pli>>
    /\ UNCHANGED <<mirrorVars, packetVars, stopVars>>

\* The owner of the SourceTrack deletes an encoding from track.encodings
removeEncoding(id) ==
    /\ id \in Range(trackEncodings)
    /\ trackEncodings' = SelectSeq(trackEncodings, LAMBDA x : x # id)
    /\ lastCall' = Call("removeEncoding", "none", "ok")
    /\ UNCHANGED <<listeners, trackAttached, trackDetached, pli>>
    /\ UNCHANGED <<mirrorVars, packetVars, stopVars>>

\* ---------------------------------------------------------------- packets
\* A PacketSource emits its next packet: every registered listener gets it
emit(id) ==
    /\ Len(emitted[id]) < MaxPackets
    /\ LET packet == Len(emitted[id]) + 1
       IN  /\ emitted' = [emitted EXCEPT ![id] = Append(@, packet)]
           /\ received' = [m \in Mirrors |->
                              IF m \in listeners[id]
                              THEN [received[m] EXCEPT ![id] = Append(@, packet)]
                              ELSE received[m]]
    /\ lastCall' = Call("emit", "none", "ok")
    /\ UNCHANGED <<sourceVars, mirrorVars, frames, stopVars>>

\* A mirror's depacketizer takes the next packet of its own multiplexer
assemble(m, id) ==
    /\ sourceStops[m][id] = 0
    /\ depacketizerStops[m][id] = 0
    /\ Len(frames[m][id]) < Len(received[m][id])
    /\ frames' = [frames EXCEPT ![m][id] =
                      Append(@, received[m][id][Len(@) + 1])]
    /\ lastCall' = Call("assemble", m, "ok")
    /\ UNCHANGED <<sourceVars, mirrorVars, emitted, received, stopVars>>

\* ------------------------------------------------------------------- Spec
\* One mirror, every operation on it, and a SourceTrack whose encodings
\* change under it.
One == {"M1"}

Next ==
    \/ \E m \in One : constructor(m)
    \/ \E m \in One : attached(m)
    \/ \E m \in One : detached(m)
    \/ \E m \in One : refresh(m)
    \/ \E m \in One : stop(m)
    \/ \E m \in One : stopReturn(m)
    \/ \E id \in EncodingIds : addEncoding(id)
    \/ \E id \in EncodingIds : removeEncoding(id)

Spec == Init /\ [][Next]_vars

\* Two mirrors of the same SourceTrack and the packets that flow to them
\* from the PacketSource of one encoding, while the SourceTrack loses
\* encodings.  Each stop() is called from outside any `stopped` listener.
FlowEncodings == {"0"}

NextFlow ==
    \/ \E m \in Mirrors : constructor(m)
    \/ \E m \in Mirrors : stack = <<>> /\ stop(m)
    \/ \E m \in Mirrors : stopReturn(m)
    \/ \E id \in FlowEncodings : emit(id)
    \/ \E m \in Mirrors, id \in FlowEncodings : assemble(m, id)
    \/ \E id \in EncodingIds : removeEncoding(id)

SpecFlow == Init /\ [][NextFlow]_vars

\* Two mirrors of the same SourceTrack, whose encodings stay as they are,
\* and every operation on each.  Each stop() is called from outside any
\* `stopped` listener.
NextSiblings ==
    \/ \E m \in Mirrors : constructor(m)
    \/ \E m \in Mirrors :
          /\ trackAttached[m] + trackDetached[m] < MaxSiblingCalls
          /\ attached(m)
    \/ \E m \in Mirrors :
          /\ trackAttached[m] + trackDetached[m] < MaxSiblingCalls
          /\ detached(m)
    \/ \E m \in Mirrors : refresh(m)
    \/ \E m \in Mirrors : stack = <<>> /\ stop(m)
    \/ \E m \in Mirrors : stopReturn(m)

SpecSiblings == Init /\ [][NextSiblings]_vars

\* ----------------------------------------------------------------- claims
\* The step is a call of op on mirror m
Called(op, m) == lastCall'.op = op /\ lastCall'.mirror = m

IsPrefix(s, t) == Len(s) <= Len(t) /\ s = SubSeq(t, 1, Len(s))

IsSuffix(s, t) ==
    Len(s) <= Len(t) /\ s = SubSeq(t, Len(t) - Len(s) + 1, Len(t))

\* C1: an `attached` event is emitted exactly in the steps in which the
\* attach count goes 0->1 and a `detached` event exactly in the steps in
\* which it goes 1->0; every other step, such as 1->2 or 2->1, emits
\* neither.
EventsFollowCountTransitions ==
    [][\A m \in Mirrors :
          /\ emitter'[m].attached = emitter[m].attached +
                (IF counter[m] = 0 /\ counter'[m] = 1 THEN 1 ELSE 0)
          /\ emitter'[m].detached = emitter[m].detached +
                (IF counter[m] = 1 /\ counter'[m] = 0 THEN 1 ELSE 0)]_vars

\* The count went 0->1->2->1->0: one event each
TwoAttachesTwoDetachesOneEventEach ==
    /\ lastCall = Call("detached", "M1", "ok")
    /\ trackAttached["M1"] = 2 /\ trackDetached["M1"] = 2
    /\ counter["M1"] = 0
    /\ emitter["M1"].attached = 1 /\ emitter["M1"].detached = 1

\* C2: as long as every stop() call on a mirror was made after the
\* previous one returned, each multiplexer and depacketizer of the mirror
\* has been stopped at most once, each listener removed at most once and
\* `stopped` emitted at most once; and a stop() call made after one has
\* returned changes nothing.
StopTwiceReleasesOnce ==
    [][\A m \in Mirrors :
          /\ stopSerial'[m] =>
                /\ emitter'[m].stopped <= 1
                /\ \A id \in EncodingIds :
                      /\ removeCalls'[m][id] <= 1
                      /\ sourceStops'[m][id] <= 1
                      /\ depacketizerStops'[m][id] <= 1
          /\ (stopSerial[m] /\ track[m] = Null /\ Called("stop", m)) =>
                /\ lastCall'.result = "ok"
                /\ UNCHANGED <<sourceVars, mirrorVars, packetVars, stack>>]_vars

\* stop() was called again after it had returned
StoppedTwiceInARow ==
    /\ stopSerial["M1"] /\ stopCalls["M1"] >= 2
    /\ track["M1"] = Null /\ stack = <<>>
    /\ lastCall = Call("stop", "M1", "ok")
    /\ sourceStops["M1"]["0"] = 1 /\ depacketizerStops["M1"]["0"] = 1
    /\ removeCalls["M1"]["0"] = 1
    /\ emitter["M1"].stopped = 1

\* C3: once a stop() call has returned the encoding mapping is empty, and
\* no later step emits an event on that mirror.
NoEventsAfterStop ==
    [][\A m \in Mirrors :
          /\ track'[m] = Null => encodings'[m] = NoEncodings
          /\ track[m] = Null => emitter'[m] = emitter[m]]_vars

\* attached(), refresh() and stop() were called after stop() had returned
CallsAfterStop ==
    /\ track["M1"] = Null
    /\ stopCalls["M1"] >= 2
    /\ pli[1000] = 0
    /\ lastCall.mirror = "M1" /\ lastCall.op = "attached"
    /\ emitter["M1"] = [attached |-> 1, detached |-> 0, stopped |-> 1]

\* C4: after stop() has returned, no multiplexer of the mirror is still
\* a listener of a PacketSource.
NoListenerAfterStop ==
    \A m \in Mirrors : \A id \in EncodingIds :
        track[m] = Null => m \notin listeners[id]

\* C5: the attach count is never negative.
CounterNeverNegative ==
    \A m \in Mirrors : counter[m] >= 0

\* C6: attached() and detached() on a mirror whose stop() has returned
\* complete without raising an error.
LifecycleCallAfterStopCompletes ==
    \A m \in Mirrors :
        (/\ track[m] = Null
         /\ lastCall.mirror = m
         /\ lastCall.op \in {"attached", "detached"})
        => lastCall.result = "ok"

\* C7: a refresh() call raises no error and sends the receiver exactly one
\* PLI per encoding of the mirror's mapping, for the SSRC of that encoding
\* on the original track; on a stopped mirror it sends none; no other call
\* sends a PLI.
RefreshRequestsOnePerEncoding ==
    [][\A m \in Mirrors :
          IF Called("refresh", m)
          THEN /\ lastCall'.result = "ok"
               /\ pli' = [s \in SSRCs |-> pli[s] +
                             Cardinality({id \in DOMAIN encodings[m] :
                                             ssrc(id) = s})]
               /\ track[m] = Null => pli' = pli
          ELSE lastCall'.mirror = m => pli' = pli]_vars

\* refresh() on a mirror of one encoding while the original track has two
RefreshedOneOfTwo ==
    /\ lastCall = Call("refresh", "M1", "ok")
    /\ track["M1"] = Set
    /\ DOMAIN encodings["M1"] = {"0"}
    /\ Range(trackEncodings) = {"0", "1"}
    /\ pli[1000] = 1 /\ pli[2000] = 0

\* A mirror's multiplexer for this encoding is registered and running
Live(m, id) ==
    /\ id \in DOMAIN encodings[m]
    /\ removeCalls[m][id] = 0
    /\ sourceStops[m][id] = 0

\* C8: a packet a PacketSource emits is handed, in the same step, to the
\* multiplexer of every mirror that is registered and not stopped, whatever
\* the other mirrors have assembled; of two such mirrors one has received
\* what the other has, from its own registration on; and each depacketizer
\* produces the packets its multiplexer received, in that order.
EveryMirrorGetsEveryPacket ==
    [][/\ \A id \in EncodingIds :
             emitted'[id] # emitted[id] =>
                \A m \in Mirrors :
                    Live(m, id) =>
                        received'[m][id] =
                            Append(received[m][id],
                                   emitted'[id][Len(emitted'[id])])
       /\ \A id \in EncodingIds : \A m1, m2 \in Mirrors :
             (Live(m1, id)' /\ Live(m2, id)') =>
                \/ IsSuffix(received'[m1][id], received'[m2][id])
                \/ IsSuffix(received'[m2][id], received'[m1][id])
       /\ \A id \in EncodingIds : \A m \in Mirrors :
             /\ Live(m, id)' => IsSuffix(received'[m][id], emitted'[id])
             /\ IsPrefix(frames'[m][id], received'[m][id])]_vars

\* M1 has assembled nothing, M2 has assembled every packet
StalledSiblingDelaysNothing ==
    /\ Live("M1", "0") /\ Live("M2", "0")
    /\ emitted["0"] = <<1, 2, 3>>
    /\ received["M1"]["0"] = <<1, 2, 3>> /\ frames["M1"]["0"] = <<>>
    /\ received["M2"]["0"] = <<1, 2, 3>> /\ frames["M2"]["0"] = <<1, 2, 3>>

\* C9: whatever the order of the attached() and detached() calls, the
\* count is the number of attaches minus the number of detaches the
\* SourceTrack was told of, and there is one more `attached` than
\* `detached` event exactly while the count is 1 or more.
CountMatchesCalls ==
    \A m \in Mirrors :
        /\ counter[m] = trackAttached[m] - trackDetached[m]
        /\ emitter[m].attached - emitter[m].detached =
              (IF counter[m] >= 1 THEN 1 ELSE 0)

\* attach, detach, attach, detach: two events of each kind
AttachDetachTwice ==
    /\ trackAttached["M1"] = 2 /\ trackDetached["M1"] = 2
    /\ counter["M1"] = 0
    /\ emitter["M1"].attached = 2 /\ emitter["M1"].detached = 2

\* C10: the constructor maps exactly the encoding ids the original track
\* has at that moment, and until stop() clears it no step changes the
\* mapping.
MappingIsConstructionSnapshot ==
    [][\A m \in Mirrors :
          /\ (track[m] = Unborn /\ track'[m] = Set) =>
                /\ DOMAIN encodings'[m] = Range(trackEncodings)
                /\ \A id \in DOMAIN encodings'[m] :
                      encodings'[m][id].id = id
          /\ (track[m] = Set /\ track'[m] = Set) =>
                encodings'[m] = encodings[m]]_vars

\* The original track lost one encoding and gained another, the mirror
\* was attached and refreshed, and its mapping is as constructed
SnapshotOutlivesSourceChanges ==
    /\ track["M1"] = Set
    /\ DOMAIN encodings["M1"] = {"0"}
    /\ trackEncodings = <<"1">>
    /\ counter["M1"] = 1
    /\ pli[1000] = 1

\* C11: a detached() call made while the attach count is 0 ends in an
\* error outcome.
UnbalancedDetachIsReported ==
    \A m \in Mirrors :
        (/\ lastCall.mirror = m
         /\ lastCall.op = "detached"
         /\ counter[m] = -1)
        => lastCall.result # "ok"

\* C12: once stop() has returned the mirror has no attached consumer
\* left: its count is not above 0 and the SourceTrack has been told of a
\* detach for every attach the mirror forwarded.
StopDetachesConsumers ==
    \A m \in Mirrors :
        track[m] = Null =>
            /\ counter[m] <= 0
            /\ trackDetached[m] >= trackAttached[m]

\* C13: a stop() call made while another stop() of the same mirror is
\* inside its emit("stopped") returns at once: it stops no multiplexer and
\* no depacketizer, emits nothing and does not reach the emit itself.
OverlappingStopReturnsAtOnce ==
    [][\A m \in Mirrors :
          (m \in Range(stack) /\ stopCalls'[m] = stopCalls[m] + 1) =>
              /\ lastCall' = Call("stop", m, "ok")
              /\ sourceStops'[m] = sourceStops[m]
              /\ depacketizerStops'[m] = depacketizerStops[m]
              /\ emitter'[m] = emitter[m]
              /\ stack' = stack]_vars

\* C14: a stop() call on a mirror that is not stopped reaches its
\* emit("stopped"), having emitted `stopped` once, and its return leaves
\* the mapping empty and both references null; and once they are null no
\* step changes the mapping or the references.
StopCompletesAndIsTerminal ==
    [][\A m \in Mirrors :
          /\ (track[m] = Set /\ stopCalls'[m] = stopCalls[m] + 1) =>
                /\ lastCall' = Call("stop", m, "emit")
                /\ emitter'[m].stopped = emitter[m].stopped + 1
          /\ (stack # <<>> /\ stack' # stack /\ Len(stack') < Len(stack)
                /\ stack[Len(stack)] = m) =>
                /\ encodings'[m] = NoEncodings
                /\ track'[m] = Null /\ receiver'[m] = Null
          /\ track[m] = Null =>
                /\ encodings'[m] = NoEncodings
                /\ track'[m] = Null /\ receiver'[m] = Null]_vars

\* C15: a mirror's multiplexer is handed no packet emitted before the
\* mirror was constructed and none emitted after its stop() has returned.
MirroringIsLiveOnly ==
    [][\A m \in Mirrors : \A id \in EncodingIds :
          /\ track[m] = Unborn => received'[m][id] = <<>>
          /\ track[m] = Null => received'[m][id] = received[m][id]]_vars

\* Both mirrors taken together
Total(f) == f["M1"] + f["M2"]

\* C16: while every mirror is active, the attached notifications the
\* SourceTrack has received less the detached ones are the sum of the
\* mirrors' attach counts; a count changes only in a step that also
\* forwards to the SourceTrack, and a call whose forward fails leaves the
\* count as it was.
UpstreamAccountingMatchesCounts ==
    [][/\ (\A m \in Mirrors : track'[m] = Set) =>
             Total(trackAttached') - Total(trackDetached') = Total(counter')
       /\ \A m \in Mirrors :
             /\ counter'[m] = counter[m] + 1 =>
                   trackAttached'[m] = trackAttached[m] + 1
             /\ counter'[m] = counter[m] - 1 =>
                   trackDetached'[m] = trackDetached[m] + 1
             /\ (/\ lastCall'.mirror = m
                 /\ lastCall'.op \in {"attached", "detached"}
                 /\ lastCall'.result # "ok") =>
                   /\ counter'[m] = counter[m]
                   /\ trackAttached'[m] = trackAttached[m]
                   /\ trackDetached'[m] = trackDetached[m]]_vars

\* Two consumers on M1 and one on M2: three at the SourceTrack
ThreeConsumersOnTwoMirrors ==
    /\ track["M1"] = Set /\ track["M2"] = Set
    /\ counter["M1"] = 2 /\ counter["M2"] = 1
    /\ Total(trackAttached) = 3 /\ Total(trackDetached) = 0

\* C17: a multiplexer that has been stopped is not a listener of any
\* PacketSource.
StoppedBufferNotRegistered ==
    \A m \in Mirrors : \A id \in EncodingIds :
        sourceStops[m][id] > 0 => m \notin listeners[id]

\* C18: attached(), detached(), refresh() and stop() on one mirror leave
\* the other mirror's count, mapping, stopped multiplexers and
\* depacketizers, listener registrations and emitted events as they were.
SiblingUntouched ==
    [][\A m \in Mirrors :
          (/\ lastCall'.mirror = m
           /\ lastCall'.op \in {"attached", "detached", "refresh", "stop"})
          => \A n \in Mirrors \ {m} :
                /\ counter'[n] = counter[n]
                /\ encodings'[n] = encodings[n]
                /\ track'[n] = track[n]
                /\ sourceStops'[n] = sourceStops[n]
                /\ depacketizerStops'[n] = depacketizerStops[n]
                /\ emitter'[n] = emitter[n]
                /\ \A id \in EncodingIds :
                      (n \in listeners'[id]) = (n \in listeners[id])]_vars

\* M1 was attached, refreshed and stopped; M2 is attached and listening
SiblingSurvivesStop ==
    /\ track["M1"] = Null /\ emitter["M1"].stopped = 1
    /\ emitter["M1"].attached = 1
    /\ pli[1000] >= 1
    /\ track["M2"] = Set /\ counter["M2"] = 1
    /\ DOMAIN encodings["M2"] = {"0", "1"}
    /\ "M2" \in listeners["0"] /\ "M2" \in listeners["1"]
    /\ sourceStops["M2"]["0"] = 0 /\ emitter["M2"].stopped = 0

=============================================================================
